---- MODULE Spec2Model ----
(***************************************************************************)
(* The telemedicine booking application of src/app.py as a state machine.  *)
(*                                                                         *)
(* State: the three MongoDB collections (users, doctors, bookings, each in *)
(* insertion order), whether the mail credentials are configured, one      *)
(* session cookie per client, and for every client the request it has in   *)
(* flight: the handler's position (pc) and its local variables (local).    *)
(* resp is the exchange the server completed last: the client, its         *)
(* request, the flashed message, the page, and the mails the handler gave  *)
(* to the relay before it returned.                                        *)
(*                                                                         *)
(* A handler is cut into steps at its database writes and reads: each of   *)
(* those is atomic on its own, and nothing in app.py makes two of them     *)
(* atomic together.  The code before the handler's first database          *)
(* operation, and the code between two operations, reads only the request  *)
(* (form, URL, session cookie) and the handler's locals, so it belongs to  *)
(* the step of the operation that follows or precedes it.                  *)
(*                                                                         *)
(* Form values are strings, modelled as sequences of one-character         *)
(* strings, so that str.strip and str.split are computed, not assumed.     *)
(***************************************************************************)
EXTENDS Integers, Sequences, FiniteSets, TLC

VARIABLES users, doctors, bookings, configured, uuidCount,
          session, pc, local, resp

vars == <<users, doctors, bookings, configured, uuidCount,
          session, pc, local, resp>>

db == <<users, doctors, bookings>>

----------------------------------------------------------------------------
(* Bounds of the model. *)

\* Longest slots string a doctor submits in SpecSlots.
MaxLen == 3

Clients == {"c1", "c2"}

----------------------------------------------------------------------------
(* Strings. *)

Whitespace == {" "}

RECURSIVE LStrip(_)
LStrip(s) ==
    IF s # <<>> /\ Head(s) \in Whitespace THEN LStrip(Tail(s)) ELSE s

RECURSIVE RStrip(_)
RStrip(s) ==
    IF s # <<>> /\ s[Len(s)] \in Whitespace
    THEN RStrip(SubSeq(s, 1, Len(s) - 1))
    ELSE s

\* str.strip(): leading and trailing whitespace removed, inner kept.
Strip(s) == RStrip(LStrip(s))

\* str.split(","): the segments between commas, empty ones included; a
\* string without a comma (the empty string too) is one segment.
RECURSIVE Split(_)
Split(s) ==
    IF \E i \in 1..Len(s) : s[i] = ","
    THEN LET i == CHOOSE k \in 1..Len(s) :
                      s[k] = "," /\ \A j \in 1..(k - 1) : s[j] # ","
         IN  <<SubSeq(s, 1, i - 1)>> \o Split(SubSeq(s, i + 1, Len(s)))
    ELSE <<s>>

\* The kept elements of the comprehension of line 112, in order.
RECURSIVE StripNonEmpty(_)
StripNonEmpty(segs) ==
    IF segs = <<>> THEN <<>>
    ELSE IF Strip(Head(segs)) # <<>>
         THEN <<Strip(Head(segs))>> \o StripNonEmpty(Tail(segs))
         ELSE StripNonEmpty(Tail(segs))

\* The comprehension without its filter: empty segments are kept.
ParseSlotsKeepEmpty(slots) ==
    [i \in 1..Len(Split(slots)) |-> Strip(Split(slots)[i])]

\* [slot.strip() for slot in slots.split(",") if slot.strip()]
ParseSlots(slots) == StripNonEmpty(Split(slots))

\* all([...]) of line 37 / 102: no field is the empty string.
AllFilled(fields) == \A i \in 1..Len(fields) : fields[i] # <<>>

----------------------------------------------------------------------------
(* Values the requests are drawn from. *)

Doctor  == <<"d", "o", "c", "t", "o", "r">>
Patient == <<"p", "a", "t", "i", "e", "n", "t">>

EmailD == <<"d", "@", "x">>
EmailP == <<"p", "@", "x">>
EmailQ == <<"q", "@", "x">>

PwX == <<"x">>
PwY == <<"y">>

SignupForm(n, e, p, r) == [name |-> n, email |-> e, password |-> p, role |-> r]
LoginForm(e, p) == [email |-> e, password |-> p]
ProfileForm(s, x, l) == [specialization |-> s, experience |-> x, slots |-> l]

----------------------------------------------------------------------------
(* The store and the password hash. *)

\* find_one(filter): the first document, in insertion order, among those at
\* the positions `hits` that match the filter; <<>> stands for None.
FindOne(coll, hits) ==
    IF hits = {} THEN <<>>
    ELSE <<coll[CHOOSE i \in hits : \A j \in hits : i <= j]>>

Found(r) == r # <<>>

\* generate_password_hash: one-way; two hashes verify the same password only
\* if they were made from it.
GeneratePasswordHash(password) == [pbkdf2 |-> password]

CheckPasswordHash(hash, password) == hash = GeneratePasswordHash(password)

----------------------------------------------------------------------------
(* Sessions, requests and responses. *)

\* session.clear(), and the cookie of a client that never logged in.
EmptySession == [k \in {} |-> k]

\* "email" in session
LoggedIn(s) == "email" \in DOMAIN s

NoLocal == [handler |-> "none"]

\* A request: the handler it is routed to, the method, the URL argument and
\* the form as submitted.
Request(handler, method, url, form) ==
    [handler |-> handler, method |-> method, url |-> url, form |-> form]

NoForm == <<>>

\* What a handler returns: the flashed message with its category, and the
\* page it redirects to or renders.
Response(flash, category, to) ==
    [flash |-> flash, category |-> category, to |-> to]

\* The handler of client c returns r to the request req, having given
\* `mails` to the relay.
Reply(c, req, r, mails) ==
    /\ resp' = [client |-> c, request |-> req, flash |-> r.flash,
                category |-> r.category, to |-> r.to, mails |-> mails]
    /\ pc' = [pc EXCEPT ![c] = "idle"]
    /\ local' = [local EXCEPT ![c] = NoLocal]

Return(c, req, r) == Reply(c, req, r, <<>>)

\* The handler of client c goes on to step p with locals l.
Goto(c, p, l) ==
    /\ pc' = [pc EXCEPT ![c] = p]
    /\ local' = [local EXCEPT ![c] = l]
    /\ UNCHANGED resp

Idle(c) == pc[c] = "idle"

Init ==
    /\ users = <<>>
    /\ doctors = <<>>
    /\ bookings = <<>>
    /\ configured \in BOOLEAN
    /\ uuidCount = 0
    /\ session = [c \in Clients |-> EmptySession]
    /\ pc = [c \in Clients |-> "idle"]
    /\ local = [c \in Clients |-> NoLocal]
    /\ resp = [client |-> "", request |-> Request("", "", "", NoForm),
               flash |-> "", category |-> "", to |-> "", mails |-> <<>>]

----------------------------------------------------------------------------
(* signup *)

\* mongo.db.users.find_one({"email": email})
FindUser(email) ==
    FindOne(users, {i \in 1..Len(users) : users[i].email = email})

\* The document of lines 46-51; id is the ObjectId the store gives it.
UserDoc(l) ==
    [id |-> Len(users) + 1, name |-> l.name, email |-> l.email,
     password |-> GeneratePasswordHash(l.password), role |-> l.role]

\* Line 41: whether signup stops at the existence check.
AlreadyRegistered(email) == Found(FindUser(email))

\* Lines 31-43: read and strip the form, reject a missing field, look the
\* email up.
SignupPost(c, form) ==
    /\ Idle(c)
    /\ LET req == Request("signup", "POST", "", form)
           l == [handler |-> "signup", request |-> req,
                 name |-> Strip(form.name), email |-> Strip(form.email),
                 password |-> Strip(form.password), role |-> Strip(form.role)]
       IN  IF ~AllFilled(<<l.name, l.email, l.password, l.role>>)
           THEN Return(c, req,
                       Response("All fields are required.", "danger", "signup"))
           ELSE IF AlreadyRegistered(l.email)
           THEN Return(c, req,
                       Response("Email already registered. Please login.",
                                "warning", "login"))
           ELSE Goto(c, "signup_insert", l)
    /\ UNCHANGED <<db, configured, uuidCount, session>>

\* Lines 45-54: hash, insert, answer.
SignupInsert(c) ==
    /\ pc[c] = "signup_insert"
    /\ users' = Append(users, UserDoc(local[c]))
    /\ Return(c, local[c].request,
              Response("Account created successfully! Please login.",
                       "success", "login"))
    /\ UNCHANGED <<doctors, bookings, configured, uuidCount, session>>

----------------------------------------------------------------------------
(* login, logout *)

\* Lines 71-74.
SessionOf(user) ==
    [user_id |-> user.id, email |-> user.email, name |-> user.name,
     role |-> user.role]

\* Line 70: user and check_password_hash(user["password"], password)
Authenticates(found, password) ==
    Found(found) /\ CheckPasswordHash(found[1].password, password)

\* Lines 61-79.
LoginPost(c, form) ==
    /\ Idle(c)
    /\ LET req == Request("login", "POST", "", form)
           l == [handler |-> "login", email |-> Strip(form.email),
                 password |-> Strip(form.password)]
           user == FindUser(l.email)
       IN  IF l.email = <<>> \/ l.password = <<>>
           THEN /\ UNCHANGED session
                /\ Return(c, req,
                          Response("Please enter both email and password.",
                                   "danger", "login"))
           ELSE IF Authenticates(user, l.password)
           THEN /\ session' = [session EXCEPT ![c] = SessionOf(user[1])]
                /\ Return(c, req,
                          Response("Login successful!", "success", "dashboard"))
           ELSE /\ UNCHANGED session
                /\ Return(c, req,
                          Response("Invalid email or password.", "danger",
                                   "login"))
    /\ UNCHANGED <<db, configured, uuidCount>>

\* Lines 85-88.
Logout(c) ==
    /\ Idle(c)
    /\ session' = [session EXCEPT ![c] = EmptySession]
    /\ Return(c, Request("logout", "GET", "", NoForm),
              Response("You have been logged out.", "info", "login"))
    /\ UNCHANGED <<db, configured, uuidCount>>

----------------------------------------------------------------------------
(* doctor_form, dashboard *)

\* A gate that asks for a login but not for the role.
DoctorAuthorizedAnyRole(s) == LoggedIn(s)

\* Line 93, negated.
DoctorAuthorized(s) == LoggedIn(s) /\ s.role = Doctor

\* mongo.db.doctors.find_one({"email": email})
FindDoctor(email) ==
    FindOne(doctors, {i \in 1..Len(doctors) : doctors[i].email = email})

\* update_one({"email": email}, {"$set": set}, upsert=True): the first match
\* gets the four fields of set; with no match a document made of the filter
\* and of set is inserted.
UpsertDoctor(coll, email, set) ==
    LET hits == {i \in 1..Len(coll) : coll[i].email = email}
        setOn(d) == [d EXCEPT !.name = set.name,
                              !.specialization = set.specialization,
                              !.experience = set.experience,
                              !.slots = set.slots]
    IN  IF hits = {}
        THEN Append(coll, [email |-> email, name |-> set.name,
                           specialization |-> set.specialization,
                           experience |-> set.experience, slots |-> set.slots])
        ELSE LET i == CHOOSE k \in hits : \A j \in hits : k <= j
             IN  [coll EXCEPT ![i] = setOn(coll[i])]

\* Lines 92-119.
DoctorForm(c, method, form) ==
    /\ Idle(c)
    /\ LET req == Request("doctor_form", method, "", form)
           specialization == Strip(form.specialization)
           experience == Strip(form.experience)
           slots == Strip(form.slots)
       IN  IF ~DoctorAuthorized(session[c])
           THEN /\ Return(c, req,
                          Response("Unauthorized access.", "danger", "login"))
                /\ UNCHANGED doctors
           ELSE IF method = "GET"
           THEN /\ Return(c, req,
                          Response("", "", "doctor_form.html"))
                /\ UNCHANGED doctors
           ELSE IF ~AllFilled(<<specialization, experience, slots>>)
           THEN /\ Return(c, req,
                          Response("All fields are required.", "danger",
                                   "doctor_form"))
                /\ UNCHANGED doctors
           ELSE /\ doctors' = UpsertDoctor(doctors, session[c].email,
                                  [name |-> session[c].name,
                                   specialization |-> specialization,
                                   experience |-> experience,
                                   slots |-> ParseSlots(slots)])
                /\ Return(c, req,
                          Response("Doctor profile saved successfully!",
                                   "success", "dashboard"))
    /\ UNCHANGED <<users, bookings, configured, uuidCount, session>>

\* Lines 123-137: reads only; the page depends on the role.
Dashboard(c) ==
    /\ Idle(c)
    /\ IF ~LoggedIn(session[c])
       THEN Return(c, Request("dashboard", "GET", "", NoForm),
                   Response("", "", "login"))
       ELSE IF session[c].role = Doctor
       THEN Return(c, Request("dashboard", "GET", "", NoForm),
                   Response("", "", "dashboard.html/doctor"))
       ELSE Return(c, Request("dashboard", "GET", "", NoForm),
                   Response("", "", "dashboard.html/patient"))
    /\ UNCHANGED <<db, configured, uuidCount, session>>

----------------------------------------------------------------------------
(* book *)

\* Line 142, negated.
PatientAuthorized(s) == LoggedIn(s) /\ s.role = Patient

\* Lines 158-161: find_one({"doctor_email": doctor_email, "slot": slot})
FindBooking(doctor_email, slot) ==
    FindOne(bookings,
            {i \in 1..Len(bookings) : /\ bookings[i].doctor_email = doctor_email
                                      /\ bookings[i].slot = slot})

\* Lines 166-167: uuid4 gives a room no earlier call gave.
JitsiLink(n) == <<"https://meet.jit.si/", "consult-", n>>

\* Line 168: datetime.datetime.now() to the minute.
Times == {"09:00"}

\* The document of lines 170-180.
BookingDoc(l) ==
    [doctor_email |-> l.doctor_email,
     patient_email |-> l.patient_email,
     patient_name |-> l.patient_name,
     doctor_name |-> l.doctor.name,
     specialization |-> l.doctor.specialization,
     slot |-> l.slot,
     jitsi_link |-> l.jitsi_link,
     created_at |-> l.created_at,
     status |-> "confirmed"]

\* An insert under a unique index on (doctor_email, slot): a document for a
\* stored pair is not added.
InsertBookingUnique(coll, doc) ==
    IF \E i \in 1..Len(coll) :
           coll[i].doctor_email = doc.doctor_email /\ coll[i].slot = doc.slot
    THEN coll
    ELSE Append(coll, doc)

\* A write that replaces the stored documents of the pair.
InsertBookingReplace(coll, doc) ==
    Append(SelectSeq(coll, LAMBDA b : ~(b.doctor_email = doc.doctor_email
                                        /\ b.slot = doc.slot)),
           doc)

\* mongo.db.bookings.insert_one(doc)
InsertBooking(coll, doc) == Append(coll, doc)

\* Lines 141-155 and 191: the role gate, the doctor's profile, the slot.
Book(c, doctor_email, method, form) ==
    /\ Idle(c)
    /\ LET req == Request("book", method, doctor_email, form)
           slot == Strip(form.slot)
           doctor == FindDoctor(doctor_email)
       IN  IF ~PatientAuthorized(session[c])
           THEN Return(c, req,
                       Response("Only patients can book appointments.",
                                "danger", "login"))
           ELSE IF ~Found(doctor)
           THEN Return(c, req,
                       Response("Doctor not found.", "danger", "dashboard"))
           ELSE IF method = "GET"
           THEN Return(c, req,
                       Response("", "", "book.html"))
           ELSE IF slot = <<>>
           THEN Return(c, req,
                       Response("Please select a time slot.", "danger", "book"))
           ELSE Goto(c, "book_find_booking",
                     [handler |-> "book", request |-> req,
                      doctor_email |-> doctor_email,
                      method |-> method, slot |-> slot,
                      patient_email |-> session[c].email,
                      patient_name |-> session[c].name,
                      doctor |-> doctor[1]])
    /\ UNCHANGED <<db, configured, uuidCount, session>>

\* A handler without the branch of line 162.
AfterCheckNoConflict(existing_booking) == "book_insert"

\* A handler that notifies without having inserted.
AfterCheckSkipInsert(existing_booking) ==
    IF Found(existing_booking) THEN "conflict" ELSE "notify"

\* Line 162: where the existence check sends the handler.
AfterCheck(existing_booking) ==
    IF Found(existing_booking) THEN "conflict" ELSE "book_insert"

\* Lines 157-168.
BookFindBooking(c) ==
    /\ pc[c] = "book_find_booking"
    /\ LET l == local[c]
           next == AfterCheck(FindBooking(l.doctor_email, l.slot))
       IN  IF next = "conflict"
           THEN /\ Return(c, l.request,
                          Response("This time slot is already booked. Please choose another.",
                                   "danger", "book"))
                /\ UNCHANGED uuidCount
           ELSE /\ uuidCount' = uuidCount + 1
                /\ \E now \in Times :
                       Goto(c, next,
                            [handler |-> "book", request |-> l.request,
                             doctor_email |-> l.doctor_email,
                             method |-> l.method, slot |-> l.slot,
                             patient_email |-> l.patient_email,
                             patient_name |-> l.patient_name,
                             doctor |-> l.doctor,
                             jitsi_link |-> JitsiLink(uuidCount + 1),
                             created_at |-> now])
    /\ UNCHANGED <<db, configured, session>>

\* Lines 170-180.
BookInsert(c) ==
    /\ pc[c] = "book_insert"
    /\ bookings' = InsertBooking(bookings, BookingDoc(local[c]))
    /\ Goto(c, "notify", local[c])
    /\ UNCHANGED <<users, doctors, configured, uuidCount, session>>

----------------------------------------------------------------------------
(* send_booking_emails, send_email *)

\* What send_email hands to the relay for this booking (lines 194-234).
Mail(to, l, result) ==
    [to |-> to, doctor_email |-> l.doctor.email,
     doctor_name |-> l.doctor.name, specialization |-> l.doctor.specialization,
     patient_name |-> l.patient_name, slot |-> l.slot,
     jitsi_link |-> l.jitsi_link, result |-> result]

\* Lines 233-234 with lines 238-256: the mails that reach the relay, in
\* order, for each way send_booking_emails can end.  Without credentials
\* send_email returns at line 240 and nothing is sent; with them each mail
\* is accepted or makes send_email raise, and a raise ends the call.
NotifierRuns(l) ==
    IF ~configured
    THEN { [mails |-> <<>>, raised |-> FALSE] }
    ELSE { [mails |-> <<Mail(l.patient_email, l, "sent"),
                        Mail(l.doctor.email, l, "sent")>>,
            raised |-> FALSE],
           [mails |-> <<Mail(l.patient_email, l, "failed")>>,
            raised |-> TRUE],
           [mails |-> <<Mail(l.patient_email, l, "sent"),
                        Mail(l.doctor.email, l, "failed")>>,
            raised |-> TRUE] }

\* book without the try/except of lines 182-187: a raise ends the request
\* with the server's error page.
NotifyResponseUncaught(raised) ==
    IF raised
    THEN Response("Internal Server Error", "", "500")
    ELSE Response("Booking confirmed! Check your email for meeting details.",
                  "success", "dashboard")

\* Lines 182-189: what book answers once send_booking_emails returned
\* (raised = FALSE) or raised.
NotifyResponse(raised) ==
    IF raised
    THEN Response("Booking confirmed! But there was an issue sending email notifications.",
                  "warning", "dashboard")
    ELSE Response("Booking confirmed! Check your email for meeting details.",
                  "success", "dashboard")

\* Lines 182-189.
Notify(c) ==
    /\ pc[c] = "notify"
    /\ \E run \in NotifierRuns(local[c]) :
           Reply(c, local[c].request, NotifyResponse(run.raised),
                 run.mails)
    /\ UNCHANGED <<db, configured, uuidCount, session>>

----------------------------------------------------------------------------
(* Spec: every writing handler, the requests of two clients interleaved.   *)
(* One doctor and one patient sign up; forms come padded and ill-formed.   *)

NameD == <<"D", "r">>
NameP == <<"P", "a">>
NameQ == <<"Q", "u">>

Cardiology == <<"c", "a", "r", "d">>
Neurology  == <<"n", "e", "u", "r">>
Years      == <<"5">>

SlotA == <<"9">>

SignupForms ==
    { SignupForm(NameD, EmailD, PwX, Doctor),
      SignupForm(NameP, EmailP, <<" ", "x">>, Patient) }

LoginForms == { LoginForm(EmailD, PwX), LoginForm(EmailP, <<"x", " ">>) }

ProfileForms ==
    { ProfileForm(Cardiology, Years, SlotA),
      ProfileForm(Neurology, Years, <<" ", "9", ",">>) }

BookForms == { [slot |-> <<"9", " ">>], [slot |-> <<" ">>] }

Next ==
    \E c \in Clients :
        \/ \E f \in SignupForms : SignupPost(c, f)
        \/ SignupInsert(c)
        \/ \E f \in LoginForms : LoginPost(c, f)
        \/ Logout(c)
        \/ \E f \in ProfileForms : DoctorForm(c, "POST", f)
        \/ \E f \in BookForms : Book(c, EmailD, "POST", f)
        \/ BookFindBooking(c)
        \/ BookInsert(c)
        \/ Notify(c)

Spec == Init /\ [][Next]_vars

----------------------------------------------------------------------------
(* SpecRace: the booking handlers of two clients interleaved, from the     *)
(* state in which a doctor and two patients have signed up, one after the  *)
(* other.                                                                  *)

\* The user document signup stores for `form`, as the i-th of the collection.
Registered(i, form) ==
    [id |-> i, name |-> Strip(form.name), email |-> Strip(form.email),
     password |-> GeneratePasswordHash(Strip(form.password)),
     role |-> Strip(form.role)]

InitRace ==
    /\ users = <<Registered(1, SignupForm(NameD, EmailD, PwX, Doctor)),
                 Registered(2, SignupForm(NameP, EmailP, PwX, Patient)),
                 Registered(3, SignupForm(NameQ, EmailQ, PwX, Patient))>>
    /\ doctors = <<>>
    /\ bookings = <<>>
    /\ configured \in BOOLEAN
    /\ uuidCount = 0
    /\ session = [c \in Clients |-> EmptySession]
    /\ pc = [c \in Clients |-> "idle"]
    /\ local = [c \in Clients |-> NoLocal]
    /\ resp = [client |-> "", request |-> Request("", "", "", NoForm),
               flash |-> "", category |-> "", to |-> "", mails |-> <<>>]

RaceLoginForms ==
    { LoginForm(EmailD, PwX), LoginForm(EmailP, PwX), LoginForm(EmailQ, PwX) }

NextRace ==
    \E c \in Clients :
        \/ \E f \in RaceLoginForms : LoginPost(c, f)
        \/ Logout(c)
        \/ \E f \in ProfileForms : DoctorForm(c, "POST", f)
        \/ Book(c, EmailD, "POST", [slot |-> SlotA])
        \/ BookFindBooking(c)
        \/ BookInsert(c)
        \/ Notify(c)

SpecRace == InitRace /\ [][NextRace]_vars

----------------------------------------------------------------------------
(* SpecSeq: every handler and method, one request at a time: a request     *)
(* starts only when no other is in flight.                                 *)

Alone(c) == \A o \in Clients \ {c} : Idle(o)

Methods == {"GET", "POST"}

SeqSignupForms ==
    { SignupForm(NameD, EmailD, PwX, Doctor),
      SignupForm(NameP, EmailP, PwX, Patient),
      SignupForm(NameQ, EmailQ, PwY, Patient),
      SignupForm(<<" ">>, EmailD, PwX, Doctor) }

SeqLoginForms ==
    { LoginForm(EmailD, PwX), LoginForm(EmailP, PwX), LoginForm(EmailQ, PwY),
      LoginForm(EmailQ, PwX), LoginForm(EmailD, <<>>) }

SeqProfileForms ==
    { ProfileForm(Cardiology, Years, SlotA),
      ProfileForm(Cardiology, <<>>, SlotA) }

SeqBookDoctors == {EmailD, EmailP}

SeqBookForms == { [slot |-> SlotA], [slot |-> <<>>] }

NextSeq ==
    \E c \in Clients :
        \/ Alone(c) /\ \E f \in SeqSignupForms : SignupPost(c, f)
        \/ Alone(c) /\ SignupInsert(c)
        \/ Alone(c) /\ \E f \in SeqLoginForms : LoginPost(c, f)
        \/ Alone(c) /\ Logout(c)
        \/ Alone(c) /\ \E m \in Methods, f \in SeqProfileForms : DoctorForm(c, m, f)
        \/ Alone(c) /\ Dashboard(c)
        \/ Alone(c) /\ \E e \in SeqBookDoctors, m \in Methods, f \in SeqBookForms :
                           Book(c, e, m, f)
        \/ Alone(c) /\ BookFindBooking(c)
        \/ Alone(c) /\ BookInsert(c)
        \/ Alone(c) /\ Notify(c)

SpecSeq == Init /\ [][NextSeq]_vars

----------------------------------------------------------------------------
(* SpecAuth: signup, login, logout and the dashboard of two clients        *)
(* interleaved, with two passwords for one email.                          *)

AuthSignupForms ==
    { SignupForm(NameP, EmailP, PwX, Patient),
      SignupForm(NameP, EmailP, PwY, Patient),
      SignupForm(NameD, <<" ">> \o EmailD, <<"x", " ">>, Doctor),
      SignupForm(NameD, EmailD, <<>>, Doctor) }

AuthLoginForms ==
    { LoginForm(EmailP, PwX), LoginForm(EmailP, PwY),
      LoginForm(EmailD, <<" ", "x">>), LoginForm(EmailD, PwY),
      LoginForm(EmailQ, PwX), LoginForm(EmailP, <<" ">>) }

NextAuth ==
    \E c \in Clients :
        \/ \E f \in AuthSignupForms : SignupPost(c, f)
        \/ SignupInsert(c)
        \/ \E f \in AuthLoginForms : LoginPost(c, f)
        \/ Logout(c)
        \/ Dashboard(c)

SpecAuth == Init /\ [][NextAuth]_vars

----------------------------------------------------------------------------
(* SpecSlots: two doctors who have signed up save their profiles from one   *)
(* browser; one of them submits every slots string of at most MaxLen       *)
(* characters, the other always the same form.                             *)

SlotChars == {"9", "1", ",", " "}

SlotStrings == UNION { [1..n -> SlotChars] : n \in 0..MaxLen }

EmailE == <<"e", "@", "x">>
NameE  == <<"E", "v">>

InitSlots ==
    /\ users = <<Registered(1, SignupForm(NameD, EmailD, PwX, Doctor)),
                 Registered(2, SignupForm(NameE, EmailE, PwX, Doctor))>>
    /\ doctors = <<>>
    /\ bookings = <<>>
    /\ configured \in BOOLEAN
    /\ uuidCount = 0
    /\ session = [c \in Clients |-> EmptySession]
    /\ pc = [c \in Clients |-> "idle"]
    /\ local = [c \in Clients |-> NoLocal]
    /\ resp = [client |-> "", request |-> Request("", "", "", NoForm),
               flash |-> "", category |-> "", to |-> "", mails |-> <<>>]

SlotsLoginForms == { LoginForm(EmailD, PwX), LoginForm(EmailE, PwX) }

IsUser(c, email) == LoggedIn(session[c]) /\ session[c].email = email

NextSlots ==
    \E c \in {"c1"} :
        \/ \E f \in SlotsLoginForms : LoginPost(c, f)
        \/ /\ IsUser(c, EmailE)
           /\ DoctorForm(c, "POST", ProfileForm(Neurology, Years, SlotA))
        \/ /\ IsUser(c, EmailD)
           /\ \E l \in SlotStrings :
                  DoctorForm(c, "POST", ProfileForm(Cardiology, Years, l))

SpecSlots == InitSlots /\ [][NextSlots]_vars

----------------------------------------------------------------------------
(* Vocabulary of the properties. *)

Indices(coll) == 1..Len(coll)

\* Some booking is stored for the pair (doctor_email, slot).
PairBooked(doctor_email, slot) ==
    \E i \in Indices(bookings) :
        bookings[i].doctor_email = doctor_email /\ bookings[i].slot = slot

SavedFlash == "Doctor profile saved successfully!"
ConflictFlash == "This time slot is already booked. Please choose another."
LoginFlash == "Login successful!"

\* The messages of a book request that ends in a role rejection, NotFound,
\* InvalidInput or Conflict.
RejectionFlashes ==
    { "Only patients can book appointments.", "Doctor not found.",
      "Please select a time slot.", ConflictFlash }

----------------------------------------------------------------------------
(* C1: in every reachable state at most one booking with status            *)
(* "confirmed" is stored for any (doctor_email, slot) pair, also when the  *)
(* book requests of different patients interleave.                         *)
C1_AtMostOneConfirmedPerSlot ==
    \A i, j \in Indices(bookings) :
        ( /\ i # j
          /\ bookings[i].status = "confirmed"
          /\ bookings[j].status = "confirmed"
          /\ bookings[i].doctor_email = bookings[j].doctor_email )
        => bookings[i].slot # bookings[j].slot

----------------------------------------------------------------------------
(* C2: when book requests run one after the other, a pair is booked at     *)
(* most once: the request that finds the pair free inserts exactly one     *)
(* booking for it, and a request that finds it booked ends in Conflict and *)
(* leaves the three collections as they are.                               *)
C2_CheckStep(c) ==
    LET l == local[c]
    IN  IF PairBooked(l.doctor_email, l.slot)
        THEN /\ resp'.client = c
             /\ resp'.flash = ConflictFlash
             /\ pc'[c] = "idle"
             /\ UNCHANGED db
        ELSE /\ pc'[c] = "book_insert"
             /\ UNCHANGED db

C2_InsertStep(c) ==
    LET l == local[c]
    IN  /\ ~PairBooked(l.doctor_email, l.slot)
        /\ Len(bookings') = Len(bookings) + 1
        /\ \A i \in Indices(bookings) : bookings'[i] = bookings[i]
        /\ bookings'[Len(bookings')].doctor_email = l.doctor_email
        /\ bookings'[Len(bookings')].slot = l.slot
        /\ bookings'[Len(bookings')].patient_email = l.patient_email

C2_SequentialOneBookingOneConflict ==
    /\ [](\A i, j \in Indices(bookings) :
              ( /\ bookings[i].doctor_email = bookings[j].doctor_email
                /\ bookings[i].slot = bookings[j].slot ) => i = j)
    /\ [][\A c \in Clients :
              /\ BookFindBooking(c) => C2_CheckStep(c)
              /\ BookInsert(c) => C2_InsertStep(c)]_vars

\* The second patient got Conflict: one booking for the pair, made by the
\* other patient.
C2_Witness ==
    /\ resp.flash = ConflictFlash
    /\ Len(bookings) = 1
    /\ bookings[1].doctor_email = EmailD
    /\ bookings[1].slot = SlotA
    /\ bookings[1].patient_email = EmailQ
    /\ session[resp.client].email = EmailP

----------------------------------------------------------------------------
(* C3: nothing stands between the existence check and the insert: a book   *)
(* request that passed the check inserts its booking whatever was inserted *)
(* since, so two requests that both passed it leave two bookings for one   *)
(* pair.                                                                   *)
C3_InsertAfterCheckIsUnconditional ==
    [][\A c \in Clients :
           BookInsert(c) =>
               /\ Len(bookings') = Len(bookings) + 1
               /\ bookings'[Len(bookings')].jitsi_link = local[c].jitsi_link
               /\ bookings'[Len(bookings')].status = "confirmed"]_vars

\* Two bookings of different patients for the same doctor and slot.
C3_Witness ==
    \E i, j \in Indices(bookings) :
        /\ i < j
        /\ bookings[i].doctor_email = bookings[j].doctor_email
        /\ bookings[i].slot = bookings[j].slot
        /\ bookings[i].patient_email # bookings[j].patient_email

----------------------------------------------------------------------------
(* C4: however the notifier ends (mails sent, sending skipped for want of  *)
(* credentials, sending raised), the book request returns normally to the  *)
(* dashboard, with category "warning" exactly when sending raised and      *)
(* "success" otherwise, and its booking is still stored as "confirmed".    *)
MailFailed(mails) == \E i \in Indices(mails) : mails[i].result = "failed"

C4_NotifyStep(c) ==
    /\ resp'.client = c
    /\ pc'[c] = "idle"
    /\ resp'.to = "dashboard"
    /\ resp'.category \in {"success", "warning"}
    /\ resp'.category = "warning" <=> MailFailed(resp'.mails)
    /\ ~configured => resp'.mails = <<>>
    /\ bookings' = bookings
    /\ \E i \in Indices(bookings') :
           /\ bookings'[i].jitsi_link = local[c].jitsi_link
           /\ bookings'[i].patient_email = local[c].patient_email
           /\ bookings'[i].status = "confirmed"

C4_NotificationNeverChangesBooking ==
    [][\A c \in Clients : Notify(c) => C4_NotifyStep(c)]_vars

\* Sending raised: the request got the warning and its booking is stored.
C4_Witness ==
    /\ resp.category = "warning"
    /\ MailFailed(resp.mails)
    /\ \E i \in Indices(bookings) :
           /\ bookings[i].jitsi_link = resp.mails[1].jitsi_link
           /\ bookings[i].status = "confirmed"

----------------------------------------------------------------------------
(* C5: a mail is given to the relay only for a booking that is already     *)
(* stored with that doctor, slot and meeting link; a book request that     *)
(* ends in a role rejection, NotFound, InvalidInput or Conflict gives the  *)
(* relay nothing.                                                          *)
C5_Stored(mail) ==
    \E i \in Indices(bookings) :
        /\ bookings[i].doctor_email = mail.doctor_email
        /\ bookings[i].slot = mail.slot
        /\ bookings[i].jitsi_link = mail.jitsi_link

C5_NotifyOnlyAfterPersist ==
    /\ [][\A c \in Clients :
              Notify(c) => \A i \in Indices(resp'.mails) : C5_Stored(resp'.mails[i])]_vars
    /\ []( /\ \A i \in Indices(resp.mails) : C5_Stored(resp.mails[i])
           /\ resp.flash \in RejectionFlashes => resp.mails = <<>> )

\* Both mails of a booking were sent.
C5_Witness ==
    /\ Len(resp.mails) = 2
    /\ resp.mails[2].to = EmailD
    /\ C5_Stored(resp.mails[2])

----------------------------------------------------------------------------
(* C6: no step changes or removes a stored booking.                        *)
C6_BookingsNeverChange ==
    [][ /\ Len(bookings') >= Len(bookings)
        /\ \A i \in Indices(bookings) : bookings'[i] = bookings[i] ]_vars

\* A booking whose doctor has since saved another specialization.
C6_Witness ==
    \E i \in Indices(bookings), k \in Indices(doctors) :
        /\ doctors[k].email = bookings[i].doctor_email
        /\ doctors[k].specialization # bookings[i].specialization

----------------------------------------------------------------------------
(* C7: the users collection holds at most one record per email, also when  *)
(* signup requests for the same email interleave.                          *)
C7_OneUserPerEmail ==
    \A i, j \in Indices(users) : users[i].email = users[j].email => i = j

----------------------------------------------------------------------------
(* C8: a login with email e and password p succeeds, and sets the session  *)
(* to e's user, exactly when p is the password of the most recent          *)
(* successful signup for e.                                                *)
LastRegistered(email) ==
    LET hits == {i \in Indices(users) : users[i].email = email}
    IN  IF hits = {} THEN <<>>
        ELSE <<users[CHOOSE i \in hits : \A j \in hits : j <= i]>>

C8_LoginStep(c, form) ==
    LET last == LastRegistered(Strip(form.email))
        succeeded == /\ resp'.flash = LoginFlash
                     /\ LoggedIn(session'[c])
                     /\ session'[c].email = Strip(form.email)
    IN  /\ succeeded <=>
               /\ last # <<>>
               /\ last[1].password = GeneratePasswordHash(Strip(form.password))
        /\ succeeded =>
               /\ session'[c].name = last[1].name
               /\ session'[c].role = last[1].role

C8_AuthenticateIffLastRegistered ==
    [][\A c \in Clients, f \in AuthLoginForms :
           LoginPost(c, f) => C8_LoginStep(c, f)]_vars

----------------------------------------------------------------------------
(* C9: after a successful profile save by e with slots string s, e has     *)
(* exactly one profile, its slot list is the comma-separated segments of   *)
(* s, each trimmed, the empty ones dropped, in order and with duplicates,  *)
(* and the profiles of the other emails are as they were.                  *)

\* The positions that bound the segments of s: before it, its commas,
\* after it.
Cuts(s) == {0, Len(s) + 1} \cup {i \in 1..Len(s) : s[i] = ","}

\* The segment of s that starts after cut a.
SegmentAfter(s, a) ==
    LET b == CHOOSE k \in Cuts(s) :
                 k > a /\ \A j \in Cuts(s) : j > a => k <= j
    IN  SubSeq(s, a + 1, b - 1)

\* A segment without the blanks around it.
Trimmed(seg) ==
    LET ink == {i \in 1..Len(seg) : seg[i] # " "}
    IN  IF ink = {} THEN <<>>
        ELSE SubSeq(seg, CHOOSE i \in ink : \A j \in ink : i <= j,
                         CHOOSE i \in ink : \A j \in ink : j <= i)

\* The cuts of s that start a segment with something in it.
Starts(s) ==
    {a \in Cuts(s) : a <= Len(s) /\ Trimmed(SegmentAfter(s, a)) # <<>>}

\* The slot list the claim describes.
ClaimedSlots(s) ==
    LET starts == Starts(s)
        nth(n) == CHOOSE a \in starts :
                      Cardinality({b \in starts : b < a}) = n - 1
    IN  [n \in 1..Cardinality(starts) |-> Trimmed(SegmentAfter(s, nth(n)))]

C9_SaveStep(c, form) ==
    LET e == session[c].email
        mine == {i \in Indices(doctors') : doctors'[i].email = e}
    IN  /\ Cardinality(mine) = 1
        /\ \A i \in mine : doctors'[i].slots = ClaimedSlots(form.slots)
        /\ \A i \in Indices(doctors) :
               doctors[i].email # e => doctors'[i] = doctors[i]
        /\ \A i \in Indices(doctors') : i \in mine \/ i \in Indices(doctors)

C9_SlotsStoredAsParsed ==
    [][( /\ resp'.request.handler = "doctor_form"
         /\ resp'.request.method = "POST"
         /\ resp'.flash = SavedFlash
         /\ DoctorForm(resp'.client, "POST", resp'.request.form) )
       => C9_SaveStep(resp'.client, resp'.request.form)]_vars

\* A save with an empty segment and a duplicate replaced a longer list,
\* beside another doctor's profile.
C9_Witness ==
    /\ resp.flash = SavedFlash
    /\ resp.request.form.slots = <<"9", ",", "9">>
    /\ \E i, k \in Indices(doctors) :
           /\ doctors[i].email = EmailD
           /\ doctors[i].slots = << <<"9">>, <<"9">> >>
           /\ doctors[k].email = EmailE

----------------------------------------------------------------------------
(* C10: a profile is written only for a session with role "doctor" and a   *)
(* booking only for a session with role "patient"; a doctor_form or book   *)
(* request of any other session leaves users, doctors and bookings as they *)
(* are.  So every profile belongs to a user with role "doctor" and every   *)
(* booking to a user with role "patient".                                  *)
HasRole(s, role) == "email" \in DOMAIN s /\ s.role = role

UserWithRole(email, role) ==
    \E i \in Indices(users) : users[i].email = email /\ users[i].role = role

\* The step completes a request of client c to `handler`.
Answers(c, handler) ==
    /\ resp' # resp
    /\ resp'.client = c
    /\ resp'.request.handler = handler

C10_Step(c) ==
    /\ (Answers(c, "doctor_form") /\ ~HasRole(session[c], Doctor))
           => UNCHANGED db
    /\ (Answers(c, "book") /\ ~HasRole(session[c], Patient))
           => UNCHANGED db
    /\ (pc[c] = "idle" /\ pc'[c] \in {"book_find_booking", "book_insert"})
           => HasRole(session[c], Patient)
    /\ (pc[c] = "book_insert" /\ pc'[c] # "book_insert")
           => HasRole(session[c], Patient)

C10_RoleGatesEveryWrite ==
    /\ [][ /\ \A c \in Clients : C10_Step(c)
           /\ doctors' # doctors =>
                  /\ HasRole(session[resp'.client], Doctor)
                  /\ resp'.request.handler = "doctor_form"
           /\ bookings' # bookings =>
                  \E c \in Clients :
                      /\ pc[c] = "book_insert"
                      /\ pc'[c] # "book_insert"
                      /\ HasRole(session[c], Patient) ]_vars
    /\ []( /\ \A k \in Indices(doctors) : UserWithRole(doctors[k].email, Doctor)
           /\ \A i \in Indices(bookings) :
                  UserWithRole(bookings[i].patient_email, Patient) )

\* A doctor was refused a booking while a profile and a booking exist.
C10_Witness ==
    /\ resp.flash = "Only patients can book appointments."
    /\ HasRole(session[resp.client], Doctor)
    /\ doctors # <<>>
    /\ bookings # <<>>

====
